---- MODULE Spec2Model ----
(***************************************************************************)
(* Model of idealista_app.py: the cached loader/enricher (load_data), the  *)
(* sidebar widgets that hold the filter criteria, and the derived views    *)
(* every script run computes from them (filtered_df, the key metrics, the  *)
(* top-10 neighbourhood tables, value_df and formatted_df).                 *)
(*                                                                         *)
(* Numbers are exact rationals [k, n, d] (kind, numerator, denominator)    *)
(* with the float specials NaN and inf that pandas/numpy produce; text is  *)
(* a sequence of one-character strings so that split is computed.          *)
(***************************************************************************)
EXTENDS Integers, Sequences, FiniteSets, TLC

\* ------------------------------------------------------------ bounds
\* rows of a dataset of the general family
MaxRows == 2
\* rows of a dataset of the value-analysis family
MaxValueRows == 3
\* neighbourhoods of a dataset of the wide family
NumWide == 11
\* widget interactions (each one reruns the script) after the first run
MaxChanges == 1
\* slider stops above the slider minimum that an interaction can pick
MaxSteps == 1

\* ------------------------------------------------------------ program constants
TopN == 10
PriceStep == 50000
AreaStep == 10
DefaultPriceHi == 3000000

\* ------------------------------------------------------------ numbers
Abs(x) == IF x < 0 THEN -x ELSE x

RECURSIVE GCD(_, _)
GCD(a, b) == IF b = 0 THEN a ELSE GCD(b, a % b)

\* the rational n/d (d > 0) in lowest terms
Num(n, d) ==
    LET g == GCD(Abs(n), d)
    IN  [k |-> "num", n |-> n \div g, d |-> d \div g]

Int2Num(i) == Num(i, 1)
NaN == [k |-> "nan", n |-> 0, d |-> 1]
Inf == [k |-> "inf", n |-> 1, d |-> 1]
NegInf == [k |-> "inf", n |-> -1, d |-> 1]
\* a cell whose text does not parse as a number
TextCell == [k |-> "text", n |-> 0, d |-> 1]

IsNum(x) == x.k = "num"
IsNaN(x) == x.k = "nan"
IsInf(x) == x.k = "inf"
Sign(x) == IF x.n > 0 THEN 1 ELSE IF x.n < 0 THEN -1 ELSE 0

\* float division as numpy does it: x/0 is inf (nan for 0/0), never an exception
FDiv(x, y) ==
    IF IsNaN(x) \/ IsNaN(y) THEN NaN
    ELSE IF IsInf(x) THEN (IF IsInf(y) THEN NaN
                           ELSE IF Sign(x) * Sign(y) < 0 THEN NegInf ELSE Inf)
    ELSE IF IsInf(y) THEN Int2Num(0)
    ELSE IF y.n = 0 THEN (IF x.n = 0 THEN NaN ELSE IF x.n < 0 THEN NegInf ELSE Inf)
    ELSE IF y.n < 0 THEN Num(-(x.n * y.d), x.d * (-y.n))
    ELSE Num(x.n * y.d, x.d * y.n)

FAdd(x, y) ==
    IF IsNaN(x) \/ IsNaN(y) THEN NaN
    ELSE IF IsInf(x) THEN (IF IsInf(y) /\ x.n # y.n THEN NaN ELSE x)
    ELSE IF IsInf(y) THEN y
    ELSE Num(x.n * y.d + y.n * x.d, x.d * y.d)

FNeg(x) == IF IsNum(x) \/ IsInf(x) THEN [x EXCEPT !.n = -x.n] ELSE x
FSub(x, y) == FAdd(x, FNeg(y))

\* x <= y on floats: every comparison with NaN is False
FLe(x, y) ==
    IF IsNaN(x) \/ IsNaN(y) THEN FALSE
    ELSE IF IsInf(x) THEN (x.n < 0 \/ (IsInf(y) /\ y.n > 0))
    ELSE IF IsInf(y) THEN y.n > 0
    ELSE x.n * y.d <= y.n * x.d

FLt(x, y) == FLe(x, y) /\ x # y

\* int(x) of a finite number: truncation toward zero
Trunc(x) == IF x.n >= 0 THEN x.n \div x.d ELSE -((-x.n) \div x.d)

RECURSIVE SumSeq(_)
SumSeq(s) == IF s = <<>> THEN Int2Num(0) ELSE FAdd(Head(s), SumSeq(Tail(s)))

\* Series.mean(): NaN cells are skipped, the mean of nothing is NaN
Mean(s) ==
    LET vals == SelectSeq(s, LAMBDA x : ~IsNaN(x))
    IN  IF vals = <<>> THEN NaN ELSE FDiv(SumSeq(vals), Int2Num(Len(vals)))

\* Series.min() / Series.max(): NaN cells are skipped
ColMin(s) ==
    LET vals == {s[i] : i \in DOMAIN s} \ {NaN}
    IN  IF vals = {} THEN NaN ELSE CHOOSE m \in vals : \A v \in vals : FLe(m, v)

ColMax(s) ==
    LET vals == {s[i] : i \in DOMAIN s} \ {NaN}
    IN  IF vals = {} THEN NaN ELSE CHOOSE m \in vals : \A v \in vals : FLe(v, m)

\* ------------------------------------------------------------ text
CharOrder == <<" ", ",", "A", "B", "C", "D", "M">>
Ord(c) == CHOOSE i \in DOMAIN CharOrder : CharOrder[i] = c

\* str < str, lexicographic as Python compares
RECURSIVE StrLess(_, _)
StrLess(a, b) ==
    IF b = <<>> THEN FALSE
    ELSE IF a = <<>> THEN TRUE
    ELSE IF Head(a) # Head(b) THEN Ord(Head(a)) < Ord(Head(b))
    ELSE StrLess(Tail(a), Tail(b))

\* address.split(',')[0]: everything before the first comma, nothing stripped
SplitFirst(s) ==
    LET commas == {i \in DOMAIN s : s[i] = ","}
    IN  IF commas = {} THEN s
        ELSE SubSeq(s, 1, (CHOOSE i \in commas : \A j \in commas : i <= j) - 1)

\* ------------------------------------------------------------ load_data
Min(a, b) == IF a <= b THEN a ELSE b
Col(d, name) == [i \in DOMAIN d |-> d[i][name]]
Unique(d, name) == {d[i][name] : i \in DOMAIN d}

\* read_csv gives a column holding any non-numeric cell the object dtype, and the
\* arithmetic of lines 74-75 on such a column raises TypeError out of load_data
LoadRaises(csv) ==
    \E i \in DOMAIN csv :
        \/ csv[i].price.k = "text"
        \/ csv[i].sqft.k = "text"
        \/ csv[i].rooms.k = "text"

\* df['rooms'].replace(0, 1)
ReplaceZero(rooms) == IF IsNum(rooms) /\ rooms.n = 0 THEN Int2Num(1) ELSE rooms

\* the derived columns of one row
EnrichRow(r) ==
    r @@ [price_per_sqft |-> FDiv(r.price, r.sqft),
          price_per_room |-> FDiv(r.price, ReplaceZero(r.rooms)),
          neighborhood   |-> SplitFirst(r.address)]

load_data(csv) == [i \in DOMAIN csv |-> EnrichRow(csv[i])]

\* ------------------------------------------------------------ sidebar
\* int(df[col].min()) raises ValueError when every cell of the column is missing
SidebarRaises(d) ==
    \/ IsNaN(ColMin(Col(d, "price")))
    \/ IsNaN(ColMin(Col(d, "sqft")))

price_min(d) == Trunc(ColMin(Col(d, "price")))
price_max(d) == Trunc(ColMax(Col(d, "price")))
area_min(d) == Trunc(ColMin(Col(d, "sqft")))
area_max(d) == Trunc(ColMax(Col(d, "sqft")))
room_counts(d) == Unique(d, "rooms")
bath_counts(d) == Unique(d, "baths")
property_types(d) == Unique(d, "typology")
neighborhoods(d) == Unique(d, "neighborhood")

\* the widget values of the first run
DefaultCriteria(d) ==
    [price_range            |-> <<price_min(d), DefaultPriceHi>>,
     area_range             |-> <<area_min(d), area_max(d)>>,
     selected_rooms         |-> room_counts(d),
     selected_baths         |-> bath_counts(d),
     selected_types         |-> property_types(d),
     selected_neighborhoods |-> {}]

NoCriteria ==
    [price_range            |-> <<0, 0>>,
     area_range             |-> <<0, 0>>,
     selected_rooms         |-> {},
     selected_baths         |-> {},
     selected_types         |-> {},
     selected_neighborhoods |-> {}]

\* the values a slider handle can be put on: the minimum, the stops above it, the maximum
SliderStops(lo, hi, step) ==
    {v \in {lo + k * step : k \in 0..MaxSteps} : v <= hi} \cup {hi}

\* ------------------------------------------------------------ filtered_df
\* the mask with the upper price bound exclusive
MaskRowStrictPrice(r, c) ==
    /\ FLe(Int2Num(c.price_range[1]), r.price)
    /\ FLt(r.price, Int2Num(c.price_range[2]))
    /\ FLe(Int2Num(c.area_range[1]), r.sqft)
    /\ FLe(r.sqft, Int2Num(c.area_range[2]))
    /\ r.rooms \in c.selected_rooms
    /\ r.baths \in c.selected_baths
    /\ r.typology \in c.selected_types

\* the boolean mask of lines 149-157
MaskRow(r, c) ==
    /\ FLe(Int2Num(c.price_range[1]), r.price)
    /\ FLe(r.price, Int2Num(c.price_range[2]))
    /\ FLe(Int2Num(c.area_range[1]), r.sqft)
    /\ FLe(r.sqft, Int2Num(c.area_range[2]))
    /\ r.rooms \in c.selected_rooms
    /\ r.baths \in c.selected_baths
    /\ r.typology \in c.selected_types

NeighborhoodMask(r, c) == r.neighborhood \in c.selected_neighborhoods

\* the neighbourhood mask applied whatever the selection
ApplyFiltersAlwaysNeighborhood(d, c) ==
    SelectSeq(SelectSeq(d, LAMBDA r : MaskRow(r, c)), LAMBDA r : NeighborhoodMask(r, c))

\* the first matching row lost to a positional slip
ApplyFiltersDropFirst(d, c) ==
    LET masked == SelectSeq(d, LAMBDA r : MaskRow(r, c))
        kept   == IF c.selected_neighborhoods # {}
                  THEN SelectSeq(masked, LAMBDA r : NeighborhoodMask(r, c))
                  ELSE masked
    IN  IF Len(kept) > 1 THEN Tail(kept) ELSE kept

ApplyFilters(d, c) ==
    LET masked == SelectSeq(d, LAMBDA r : MaskRow(r, c))
    IN  IF c.selected_neighborhoods # {}
        THEN SelectSeq(masked, LAMBDA r : NeighborhoodMask(r, c))
        ELSE masked

\* ------------------------------------------------------------ key metrics
NA == [k |-> "na", v |-> 0]
Unset == [k |-> "unset", v |-> 0]
Raised == [k |-> "raised", v |-> 0]

\* a card without the emptiness guard: int() is called on the undefined mean
MetricCardUnguarded(avg, empty) ==
    IF IsNum(avg) THEN [k |-> "int", v |-> Trunc(avg)] ELSE Raised

\* one metric card: "N/A" for an undefined mean or an empty frame, else int(mean);
\* int() of an infinite mean raises OverflowError
MetricCard(avg, empty) ==
    IF IsNaN(avg) \/ empty THEN NA
    ELSE IF IsInf(avg) THEN Raised
    ELSE [k |-> "int", v |-> Trunc(avg)]

\* the four cards in script order; the cards after one that raised are never drawn
KeyMetrics(f) ==
    LET empty == (f = <<>>)
        p  == MetricCard(Mean(Col(f, "price")), empty)
        ps == MetricCard(Mean(Col(f, "price_per_sqft")), empty)
        a  == MetricCard(Mean(Col(f, "sqft")), empty)
    IN  [count          |-> Len(f),
         avg_price      |-> p,
         avg_price_sqft |-> IF p = Raised THEN Unset ELSE ps,
         avg_area       |-> IF p = Raised \/ ps = Raised THEN Unset ELSE a]

MetricsRaise(m) == Raised \in {m.avg_price, m.avg_price_sqft, m.avg_area}

NoMetrics == [count |-> 0, avg_price |-> Unset, avg_price_sqft |-> Unset, avg_area |-> Unset]

\* ------------------------------------------------------------ grouped views
\* the group keys in the order groupby (sort=True) lists them
RECURSIVE SortKeys(_)
SortKeys(S) ==
    IF S = {} THEN <<>>
    ELSE LET m == CHOOSE x \in S : \A y \in S \ {x} : StrLess(x, y)
         IN  <<m>> \o SortKeys(S \ {m})

\* f.groupby('neighborhood')[col].mean().reset_index()
GroupMean(f, col) ==
    LET keys == SortKeys(neighborhoods(f))
    IN  [g \in DOMAIN keys |->
            [neighborhood |-> keys[g],
             val |-> Mean(Col(SelectSeq(f, LAMBDA r : r.neighborhood = keys[g]), col))]]

\* sort_values(col, ascending=False) with the default kind='quicksort', which is
\* not a stable sort: every arrangement of g by descending val is a possible result
RECURSIVE DescOrdersOf(_, _)
DescOrdersOf(g, I) ==
    IF I = {} THEN {<<>>}
    ELSE LET tops == {i \in I : \A j \in I : FLe(g[j].val, g[i].val)}
         IN  UNION {{<<g[i]>> \o s : s \in DescOrdersOf(g, I \ {i})} : i \in tops}

sort_values(g) == DescOrdersOf(g, DOMAIN g)

\* .head(n)
head(s, n) == SubSeq(s, 1, Min(n, Len(s)))

\* the possible top-10 tables of lines 262-263 and 364-366
TopTables(f, col) == {head(s, TopN) : s \in sort_values(GroupMean(f, col))}

\* the guard of lines 261, 363 and 416
SeveralNeighborhoods(f) == Cardinality(neighborhoods(f)) > 1

\* ------------------------------------------------------------ value_df
\* the ratio taken the wrong way round
ValueRowInverted(r, avgs) ==
    LET avg   == (CHOOSE a \in {avgs[g] : g \in DOMAIN avgs} :
                      a.neighborhood = r.neighborhood).val
        ratio == FDiv(avg, r.price_per_sqft)
    IN  r @@ [avg_price_per_sqft |-> avg,
              value_ratio        |-> ratio,
              value_opportunity  |-> FSub(Int2Num(2), ratio)]

\* lines 418-424: merge the neighbourhood averages in, then the two ratios
ValueRow(r, avgs) ==
    LET avg   == (CHOOSE a \in {avgs[g] : g \in DOMAIN avgs} :
                      a.neighborhood = r.neighborhood).val
        ratio == FDiv(r.price_per_sqft, avg)
    IN  r @@ [avg_price_per_sqft |-> avg,
              value_ratio        |-> ratio,
              value_opportunity  |-> FSub(Int2Num(2), ratio)]

ValueOpportunity(f) ==
    LET avgs == GroupMean(f, "price_per_sqft")
    IN  [i \in DOMAIN f |-> ValueRow(f[i], avgs)]

\* ------------------------------------------------------------ formatted_df
\* f"{n:,}": the decimal digits of n in groups of three
RECURSIVE Thousands(_)
Thousands(n) == IF n < 1000 THEN <<n>> ELSE Thousands(n \div 1000) \o <<n % 1000>>

\* f"EUR{int(x):,}"
Euro(x) == [symbol |-> "EUR", groups |-> Thousands(Trunc(x))]

FormatRow(r) ==
    [title          |-> r.title,
     price          |-> Euro(r.price),
     rooms          |-> r.rooms,
     baths          |-> r.baths,
     sqft           |-> r.sqft,
     price_per_sqft |-> Euro(r.price_per_sqft),
     neighborhood   |-> r.neighborhood,
     typology       |-> r.typology]

\* int(x) of a NaN or infinite cell raises
FormatRaises(f) ==
    \E i \in DOMAIN f : ~IsNum(f[i].price) \/ ~IsNum(f[i].price_per_sqft)

Formatted(f) == [i \in DOMAIN f |-> FormatRow(f[i])]

\* the mask applied to df itself
DatasetAfterRunInPlace(d, f) == f

\* df after a script run: the mask is applied to filtered_df = df.copy() and the
\* display strings are written to formatted_df, a copy as well; df is never assigned
DatasetAfterRun(d, f) == d

\* ------------------------------------------------------------ what a run renders
\* the first tab without its emptiness guard
Tab1Unguarded(f) ==
    {"price_hist", "typology_pie"}
    \cup (IF SeveralNeighborhoods(f) THEN {"top_neighborhoods_bar"} ELSE {"tab1_info"})

\* lines 212-282
Tab1(f) ==
    IF f = <<>> THEN {"tab1_warning"}
    ELSE {"price_hist", "typology_pie"}
         \cup (IF SeveralNeighborhoods(f) THEN {"top_neighborhoods_bar"} ELSE {"tab1_info"})

Tab2(f) ==
    IF f = <<>> THEN {"tab2_warning"}
    ELSE {"area_price_scatter", "rooms_hist", "baths_hist"}

Tab3Charts(f) ==
    (IF SeveralNeighborhoods(f) THEN {"price_sqft_bar"} ELSE {"tab3_info_neighborhood"})
    \cup (IF Cardinality(Unique(f, "rooms")) > 1 THEN {"price_room_bar"} ELSE {"tab3_info_rooms"})
    \cup (IF SeveralNeighborhoods(f) THEN {"value_scatter"} ELSE {"tab3_info_value"})

\* ------------------------------------------------------------ state
VARIABLES
    csv,                      \* the rows of idealista_madrid.csv
    status,                   \* "start", "ok", or where the last run raised
    df,                       \* what load_data returned
    criteria,                 \* the values of the six sidebar widgets
    filtered_df,
    metrics,                  \* the four key-metric cards
    top_neighborhoods,
    price_sqft_neighborhood,
    value_df,
    formatted_df,
    shown,                    \* the elements the last run rendered
    changes                   \* widget interactions so far

vars == <<csv, status, df, criteria, filtered_df, metrics, top_neighborhoods,
          price_sqft_neighborhood, value_df, formatted_df, shown, changes>>

\* ------------------------------------------------------------ datasets
Listing(p, s, r, b, t, a) ==
    [title |-> "listing", price |-> p, sqft |-> s, rooms |-> r, baths |-> b,
     typology |-> t, address |-> a]

AddrA == <<"A", ",", " ", "M">>
AddrB == <<"B">>
BaseRow == Listing(Int2Num(200000), Int2Num(50), Int2Num(1), 1, "Flat", AddrA)
Fields == {"price", "sqft", "rooms", "baths", "typology", "address"}

CleanRows ==
    {Listing(p, s, r, b, t, a) :
        p \in {Int2Num(200000), Int2Num(250000)}, s \in {Int2Num(50), Int2Num(60)},
        r \in {Int2Num(1), Int2Num(2)}, b \in {1, 2}, t \in {"Flat", "House"},
        a \in {AddrA, AddrB}}

Differing(r) == Cardinality({x \in Fields : r[x] # BaseRow[x]})

\* the base listing, the listings that differ from it in one column, the one
\* that differs in every column, and the base listing without a price or rooms
GeneralRows ==
    {r \in CleanRows : Differing(r) <= 1 \/ Differing(r) = 6}
    \cup {[BaseRow EXCEPT !.price = NaN], [BaseRow EXCEPT !.rooms = NaN]}

\* the base listing with one cell missing, not numeric, or zero, or with blanks
\* around the first segment of the address
OddRows ==
    {[BaseRow EXCEPT !.price = c] : c \in {NaN, TextCell}}
    \cup {[BaseRow EXCEPT !.sqft = c] : c \in {NaN, TextCell, Int2Num(0)}}
    \cup {[BaseRow EXCEPT !.rooms = c] : c \in {NaN, TextCell, Int2Num(0)}}
    \cup {[BaseRow EXCEPT !.address = a] :
            a \in {<<" ", "A", ",", " ", "M">>, <<"A", " ", ",", " ", "M">>, <<"A">>}}

LoadRows == {BaseRow, Listing(Int2Num(250000), Int2Num(60), Int2Num(2), 2, "House", AddrB)}
            \cup OddRows

\* the two listings of the worked example (200000 and 400000 for 50 sqft in A),
\* and listings in a second neighbourhood
ValueRows ==
    {Listing(Int2Num(p), Int2Num(50), Int2Num(1), 1, "Flat", a) :
        p \in {200000, 400000}, a \in {AddrA, AddrB}}
    \cup {Listing(Int2Num(200000), Int2Num(40), Int2Num(2), 1, "Flat", AddrB)}

SeqsUpTo(S, n) == UNION {[1..m -> S] : m \in 1..n}

Letters == <<"A", "B", "C", "D">>
Name(i) == <<Letters[((i - 1) \div 4) + 1], Letters[((i - 1) % 4) + 1]>>

\* one listing per neighbourhood, listed in reverse alphabetical order, with
\* growing prices, except that listing t is priced as listing u is
WideDataset(t, u) ==
    [i \in 1..NumWide |->
        Listing(Int2Num(200000 + PriceStep * (IF i = t THEN u ELSE i)),
                Int2Num(IF i = 1 THEN 60 ELSE 50),
                Int2Num(1), 1, "Flat", Name(NumWide + 1 - i))]

GeneralDatasets == SeqsUpTo(GeneralRows, MaxRows)
LoadDatasets == SeqsUpTo(LoadRows, MaxRows)
ValueDatasets == SeqsUpTo(ValueRows, MaxValueRows)
\* valid listings whose price or area may be a non-integer (250000.5, 60.5)
FractionRows ==
    {Listing(p, a, Int2Num(1), 1, "Flat", ad) :
        p \in {Int2Num(200000), Num(500001, 2)}, a \in {Int2Num(50), Num(121, 2)},
        ad \in {AddrA, AddrB}}

FractionDatasets == SeqsUpTo(FractionRows, MaxRows)
WideDatasets == {WideDataset(t, u) : t \in 1..NumWide, u \in 1..NumWide}

Start(datasets) ==
    /\ csv \in datasets
    /\ status = "start"
    /\ df = <<>>
    /\ criteria = NoCriteria
    /\ filtered_df = <<>>
    /\ metrics = NoMetrics
    /\ top_neighborhoods = <<>>
    /\ price_sqft_neighborhood = <<>>
    /\ value_df = <<>>
    /\ formatted_df = <<>>
    /\ shown = {}
    /\ changes = 0

Init == Start(GeneralDatasets)
InitLoad == Start(LoadDatasets)
InitValue == Start(ValueDatasets)
InitWide == Start(WideDatasets)
InitFraction == Start(FractionDatasets)

\* ------------------------------------------------------------ one script run
\* lines 147-497 on the dataset d with the widget values c
RunScript(d, c) ==
    LET f == ApplyFilters(d, c)
        m == KeyMetrics(f)
        warning == IF f = <<>> THEN {"warning"} ELSE {}
    IN  /\ df' = DatasetAfterRun(d, f)
        /\ criteria' = c
        /\ filtered_df' = f
        /\ metrics' = m
        /\ IF MetricsRaise(m)
           THEN /\ status' = "metrics_error"
                /\ top_neighborhoods' = <<>>
                /\ price_sqft_neighborhood' = <<>>
                /\ value_df' = <<>>
                /\ formatted_df' = <<>>
                /\ shown' = warning
           ELSE IF f = <<>>
           THEN /\ status' = "ok"
                /\ top_neighborhoods' = <<>>
                /\ price_sqft_neighborhood' = <<>>
                /\ value_df' = <<>>
                /\ formatted_df' = <<>>
                /\ shown' = warning \cup {"metrics"} \cup Tab1(f) \cup Tab2(f) \cup {"tab3_warning"}
           ELSE /\ IF SeveralNeighborhoods(f)
                   THEN /\ top_neighborhoods' \in TopTables(f, "price")
                        /\ price_sqft_neighborhood' \in TopTables(f, "price_per_sqft")
                        /\ value_df' = ValueOpportunity(f)
                   ELSE /\ top_neighborhoods' = <<>>
                        /\ price_sqft_neighborhood' = <<>>
                        /\ value_df' = <<>>
                /\ IF FormatRaises(f)
                   THEN /\ status' = "format_error"
                        /\ formatted_df' = <<>>
                        /\ shown' = {"metrics"} \cup Tab1(f) \cup Tab2(f) \cup Tab3Charts(f)
                   ELSE /\ status' = "ok"
                        /\ formatted_df' = Formatted(f)
                        /\ shown' = {"metrics"} \cup Tab1(f) \cup Tab2(f) \cup Tab3Charts(f)
                                    \cup {"table", "download"}

\* ------------------------------------------------------------ actions
\* the first run of the script: load_data, the widgets at their defaults, the views
FirstRun ==
    /\ status = "start"
    /\ UNCHANGED <<csv, changes>>
    /\ IF LoadRaises(csv)
       THEN /\ status' = "load_error"
            /\ UNCHANGED <<df, criteria, filtered_df, metrics, top_neighborhoods,
                           price_sqft_neighborhood, value_df, formatted_df, shown>>
       ELSE IF SidebarRaises(load_data(csv))
       THEN /\ status' = "sidebar_error"
            /\ df' = load_data(csv)
            /\ UNCHANGED <<criteria, filtered_df, metrics, top_neighborhoods,
                           price_sqft_neighborhood, value_df, formatted_df, shown>>
       ELSE RunScript(load_data(csv), DefaultCriteria(load_data(csv)))

\* the widgets are on the page once the sidebar has been drawn
Interactive == status \in {"ok", "metrics_error", "format_error"}

Interact(c) ==
    /\ Interactive
    /\ changes < MaxChanges
    /\ changes' = changes + 1
    /\ UNCHANGED csv
    /\ RunScript(df, c)

ChangePriceRange ==
    \E lo, hi \in SliderStops(price_min(df), price_max(df), PriceStep)
                  \cup {criteria.price_range[1], criteria.price_range[2]} :
        /\ lo <= hi
        /\ <<lo, hi>> # criteria.price_range
        /\ Interact([criteria EXCEPT !.price_range = <<lo, hi>>])

ChangeAreaRange ==
    \E lo, hi \in SliderStops(area_min(df), area_max(df), AreaStep) :
        /\ lo <= hi
        /\ <<lo, hi>> # criteria.area_range
        /\ Interact([criteria EXCEPT !.area_range = <<lo, hi>>])

\* a multiselect interaction adds or removes one option
Toggle(sel, o) == IF o \in sel THEN sel \ {o} ELSE sel \cup {o}

ChangeRooms ==
    \E o \in room_counts(df) :
        Interact([criteria EXCEPT !.selected_rooms = Toggle(@, o)])

ChangeBaths ==
    \E o \in bath_counts(df) :
        Interact([criteria EXCEPT !.selected_baths = Toggle(@, o)])

ChangeTypes ==
    \E o \in property_types(df) :
        Interact([criteria EXCEPT !.selected_types = Toggle(@, o)])

ChangeNeighborhoods ==
    \E o \in neighborhoods(df) :
        Interact([criteria EXCEPT !.selected_neighborhoods = Toggle(@, o)])

\* the script runs again with the widgets as they are
Rerun ==
    /\ Interactive
    /\ UNCHANGED <<csv, changes>>
    /\ RunScript(df, criteria)

Next ==
    \/ FirstRun
    \/ ChangePriceRange
    \/ ChangeAreaRange
    \/ ChangeRooms
    \/ ChangeBaths
    \/ ChangeTypes
    \/ ChangeNeighborhoods
    \/ Rerun

Spec == Init /\ [][Next]_vars
SpecLoad == InitLoad /\ [][Next]_vars
SpecValue == InitValue /\ [][Next]_vars
SpecWide == InitWide /\ [][Next]_vars
SpecFraction == InitFraction /\ [][Next]_vars

\* ------------------------------------------------------------ properties
\* a run got as far as computing filtered_df
Filtered == status \in {"ok", "metrics_error", "format_error"}

\* lo <= x <= hi for a number x and integers lo, hi
Within(x, lo, hi) == IsNum(x) /\ lo * x.d <= x.n /\ x.n <= hi * x.d

FivePredicates(r, c) ==
    /\ Within(r.price, c.price_range[1], c.price_range[2])
    /\ Within(r.sqft, c.area_range[1], c.area_range[2])
    /\ \E o \in c.selected_rooms : o = r.rooms
    /\ \E o \in c.selected_baths : o = r.baths
    /\ \E o \in c.selected_types : o = r.typology

SixPredicates(r, c) ==
    /\ FivePredicates(r, c)
    /\ \/ c.selected_neighborhoods = {}
       \/ \E o \in c.selected_neighborhoods : o = r.neighborhood

Rows(d) == {d[i] : i \in DOMAIN d}

\* C1: a row of the loaded dataset is in filtered_df if and only if its price and
\* its area are within the two ranges (bounds included), its rooms, baths and
\* typology are among the selected ones, and no neighbourhood is selected or its
\* own is; filtered_df holds no row that is not in the dataset.
C1_FilterKeepsExactlyMatching ==
    Filtered =>
        /\ \A r \in Rows(df) : (r \in Rows(filtered_df)) <=> SixPredicates(r, criteria)
        /\ Rows(filtered_df) \subseteq Rows(df)

\* a widget has been changed, one row is kept and another one rejected
C1_Witness ==
    /\ status = "ok"
    /\ changes > 0
    /\ \E r \in Rows(df) : r \in Rows(filtered_df) /\ r.price = Int2Num(criteria.price_range[2])
    /\ \E r \in Rows(df) : r \notin Rows(filtered_df)

\* C2: with no neighbourhood selected, filtered_df is what the other five
\* predicates alone keep; with no room count, no bath count or no typology
\* selected, filtered_df is empty.
C2_EmptySelectionAsymmetry ==
    Filtered =>
        /\ criteria.selected_neighborhoods = {} =>
               filtered_df = SelectSeq(df, LAMBDA r : FivePredicates(r, criteria))
        /\ (\/ criteria.selected_rooms = {}
            \/ criteria.selected_baths = {}
            \/ criteria.selected_types = {}) => filtered_df = <<>>

\* every room count has been deselected while no neighbourhood is selected
C2_Witness ==
    /\ status = "ok"
    /\ criteria.selected_rooms = {}
    /\ criteria.selected_neighborhoods = {}
    /\ df # <<>>
    /\ filtered_df = <<>>

\* C3: filtering filtered_df again with the same criteria yields filtered_df,
\* the same rows in the same order.
C3_FilterIdempotent ==
    Filtered => ApplyFilters(filtered_df, criteria) = filtered_df

\* two rows were kept and one row of the dataset was not
C3_Witness ==
    /\ status = "ok"
    /\ Len(filtered_df) >= 2
    /\ Len(filtered_df) < Len(df)

\* C4: when filtered_df is empty the count is 0 and the three averages are
\* shown as "N/A": none is a number, and int() was called on none of them.
C4_EmptyMetricsNotApplicable ==
    (Filtered /\ filtered_df = <<>>) =>
        /\ metrics.count = 0
        /\ metrics.avg_price = NA
        /\ metrics.avg_price_sqft = NA
        /\ metrics.avg_area = NA

\* a run on a loaded dataset that left no row
C4_Witness ==
    /\ status = "ok"
    /\ df # <<>>
    /\ filtered_df = <<>>
    /\ metrics.count = 0
    /\ "metrics" \in shown

\* the mean price_per_sqft of the rows of f in neighbourhood nb
NeighborhoodAverage(f, nb) ==
    LET rows == SelectSeq(f, LAMBDA r : r.neighborhood = nb)
    IN  FDiv(SumSeq(Col(rows, "price_per_sqft")), Int2Num(Len(rows)))

One == Int2Num(1)
Two == Int2Num(2)

\* the two listings of the worked example are the rows of f in neighbourhood A
ExampleInA(f) ==
    LET rows == SelectSeq(f, LAMBDA r : r.neighborhood = <<"A">>)
    IN  /\ Len(rows) = 2
        /\ {rows[1].price, rows[2].price} = {Int2Num(200000), Int2Num(400000)}
        /\ rows[1].sqft = Int2Num(50) /\ rows[2].sqft = Int2Num(50)

\* value_df is filtered_df, row by row, with the ratio and the opportunity added
Annotated ==
    /\ Len(value_df) = Len(filtered_df)
    /\ \A i \in DOMAIN filtered_df :
         LET r   == filtered_df[i]
             v   == value_df[i]
             avg == NeighborhoodAverage(filtered_df, r.neighborhood)
         IN  /\ \A x \in DOMAIN r : v[x] = r[x]
             /\ v.value_ratio = FDiv(r.price_per_sqft, avg)
             /\ v.value_opportunity = FSub(Two, v.value_ratio)
             /\ r.price_per_sqft = avg => v.value_ratio = One /\ v.value_opportunity = One
             /\ (ExampleInA(filtered_df) /\ r.neighborhood = <<"A">>) =>
                  IF r.price = Int2Num(200000)
                  THEN v.value_ratio = Num(2, 3) /\ v.value_opportunity = Num(4, 3)
                  ELSE v.value_ratio = Num(4, 3) /\ v.value_opportunity = Num(2, 3)

\* C5 as stated: every row of every non-empty filtered_df, a filtered_df of a
\* single neighbourhood included, is annotated in value_df with
\* value_ratio = price_per_sqft / (mean price_per_sqft of its neighbourhood) and
\* value_opportunity = 2 - value_ratio.
C5_AnnotatesEveryNonEmptySet ==
    (status = "ok" /\ filtered_df # <<>>) => Annotated

\* C5 as amended: the rows are annotated so exactly when filtered_df holds more
\* than one distinct neighbourhood; otherwise no value_df is computed.
C5_AnnotatesWhenSeveralNeighborhoods ==
    status = "ok" =>
        IF SeveralNeighborhoods(filtered_df) THEN Annotated ELSE value_df = <<>>

\* the two example listings in A, with a listing of another neighbourhood at its
\* own neighbourhood's average
C5_Witness ==
    /\ status = "ok"
    /\ ExampleInA(filtered_df)
    /\ \E i \in DOMAIN value_df :
         value_df[i].value_ratio = Num(2, 3) /\ value_df[i].value_opportunity = Num(4, 3)
    /\ \E i \in DOMAIN value_df :
         value_df[i].value_ratio = Num(4, 3) /\ value_df[i].value_opportunity = Num(2, 3)
    /\ \E i \in DOMAIN value_df :
         value_df[i].value_ratio = One /\ value_df[i].value_opportunity = One

\* g by descending val, groups of equal val in the order g lists them
RECURSIVE StableDescOf(_, _)
StableDescOf(g, I) ==
    IF I = {} THEN <<>>
    ELSE LET i == CHOOSE x \in I :
                      /\ \A j \in I : FLe(g[j].val, g[x].val)
                      /\ \A j \in I : (g[j].val = g[x].val) => x <= j
         IN  <<g[i]>> \o StableDescOf(g, I \ {i})

StableDesc(g) == StableDescOf(g, DOMAIN g)

\* C6: with more than one neighbourhood, each top-10 table is the groups sorted
\* by mean descending, groups of equal mean in their input order, cut to the
\* first 10: min(10, number of neighbourhoods) entries.
C6_TopTenStableOrder ==
    (status = "ok" /\ SeveralNeighborhoods(filtered_df)) =>
        /\ top_neighborhoods = head(StableDesc(GroupMean(filtered_df, "price")), TopN)
        /\ price_sqft_neighborhood =
               head(StableDesc(GroupMean(filtered_df, "price_per_sqft")), TopN)
        /\ Len(top_neighborhoods) = Min(TopN, Cardinality(neighborhoods(filtered_df)))

\* C7: after load, whatever the widgets are set to and however often the script
\* runs, df is what load_data returned, and the rows of filtered_df are rows of
\* df as loaded (numbers, not display strings).
C7_DatasetUnchangedAfterLoad ==
    status \notin {"start", "load_error"} =>
        /\ df = load_data(csv)
        /\ Filtered => Rows(filtered_df) \subseteq Rows(load_data(csv))

\* a widget was changed, the filter dropped a row, and value_df and formatted_df
\* were computed
C7_Witness ==
    /\ status = "ok"
    /\ changes > 0
    /\ Len(filtered_df) < Len(df)
    /\ value_df # <<>>
    /\ formatted_df # <<>>
    /\ \E i \in DOMAIN formatted_df : formatted_df[i].price.groups = <<200, 0>>

Loaded == status \notin {"start", "load_error"}
NumericRow(r) == IsNum(r.price) /\ IsNum(r.sqft) /\ IsNum(r.rooms)
AtLeastOne(x) == IF FLe(x, One) THEN One ELSE x

\* C8: after load every row (with numeric price, sqft and rooms) has
\* price_per_sqft = price / sqft and price_per_room = price / max(rooms, 1), and
\* no division by zero took place.
C8_DerivedFieldsWithoutZeroDivision ==
    Loaded =>
        \A i \in DOMAIN df :
            NumericRow(df[i]) =>
                /\ df[i].sqft.n # 0
                /\ IsNum(df[i].price_per_sqft)
                /\ df[i].price_per_sqft = FDiv(df[i].price, df[i].sqft)
                /\ df[i].price_per_room = FDiv(df[i].price, AtLeastOne(df[i].rooms))

ValidCsvRow(r) == NumericRow(r) /\ r.sqft.n > 0

\* C9: when a row misses price, sqft or rooms, or holds a non-numeric one, or
\* has sqft <= 0, the run ends in an error before any filter, metric or chart
\* step (the ValueError of int() on an all-missing column is taken for such an
\* error as well as the TypeError out of load_data).
C9_InvalidRowsAreFatal ==
    (status # "start" /\ \E i \in DOMAIN csv : ~ValidCsvRow(csv[i])) =>
        /\ status \in {"load_error", "sidebar_error"}
        /\ filtered_df = <<>>
        /\ shown = {}

\* str.strip() of blanks
RECURSIVE LStrip(_)
LStrip(s) == IF s # <<>> /\ Head(s) = " " THEN LStrip(Tail(s)) ELSE s
RECURSIVE RStrip(_)
RStrip(s) == IF s # <<>> /\ s[Len(s)] = " " THEN RStrip(SubSeq(s, 1, Len(s) - 1)) ELSE s
Strip(s) == RStrip(LStrip(s))

FirstSegment(s) == IF \E i \in DOMAIN s : s[i] = ","
                   THEN SubSeq(s, 1, (CHOOSE i \in DOMAIN s :
                                         s[i] = "," /\ \A j \in 1..(i - 1) : s[j] # ",") - 1)
                   ELSE s

\* C10: every row's neighborhood is the part of its address before the first
\* comma, without leading and trailing blanks.
C10_NeighborhoodTrimmed ==
    Loaded => \A i \in DOMAIN df : df[i].neighborhood = Strip(FirstSegment(df[i].address))

\* everything a run can draw from rows: charts, the table, the download button
DataElements ==
    {"price_hist", "typology_pie", "top_neighborhoods_bar", "area_price_scatter",
     "rooms_hist", "baths_hist", "price_sqft_bar", "price_room_bar", "value_scatter",
     "table", "download"}

\* C11: a run whose filtered_df is empty raises nothing, shows the no-match
\* notice (in the page and in each tab), draws no chart, table or download
\* button, and computes no group average and no value_df.
C11_EmptyResultIsNotAnError ==
    (Filtered /\ filtered_df = <<>>) =>
        /\ status = "ok"
        /\ {"warning", "tab1_warning", "tab2_warning", "tab3_warning"} \subseteq shown
        /\ shown \cap DataElements = {}
        /\ top_neighborhoods = <<>>
        /\ price_sqft_neighborhood = <<>>
        /\ value_df = <<>>
        /\ formatted_df = <<>>

\* a widget change that left no row of a loaded dataset
C11_Witness ==
    /\ status = "ok"
    /\ changes > 0
    /\ df # <<>>
    /\ filtered_df = <<>>
    /\ "warning" \in shown

\* price and area are positive numbers in every row, rooms is a number
PositiveDataset == \A i \in DOMAIN df :
    /\ NumericRow(df[i])
    /\ df[i].price.n > 0
    /\ df[i].sqft.n > 0

\* both sliders on their full range, every room count, bath count and typology
\* selected, no neighbourhood selected
FullRangeCriteria ==
    /\ criteria.price_range = <<price_min(df), price_max(df)>>
    /\ criteria.area_range = <<area_min(df), area_max(df)>>
    /\ criteria.selected_rooms = room_counts(df)
    /\ criteria.selected_baths = bath_counts(df)
    /\ criteria.selected_types = property_types(df)
    /\ criteria.selected_neighborhoods = {}

\* each slider has a minimum below its maximum
ProperSliders == price_min(df) < price_max(df) /\ area_min(df) < area_max(df)

\* C12: for a dataset of positive prices and areas, integers or not, the widgets
\* on their full ranges [int(min), int(max)] with everything selected and no
\* neighbourhood selected make filtered_df the whole dataset (stated here for
\* the datasets whose sliders have a minimum below their maximum).
C12_FullRangeKeepsEveryRow ==
    (Filtered /\ PositiveDataset /\ ProperSliders /\ FullRangeCriteria) => filtered_df = df

====
